---- MODULE Spec2Model ----
(***************************************************************************)
(* Evidence-grounded report synthesis of the patent history analyzer       *)
(* (src/src/app.py and its collaborators).                                 *)
(*                                                                         *)
(* Text is modelled as a sequence of atoms.  An atom is one lexeme of the  *)
(* text: a word, a sentence-ending punctuation mark, a whitespace          *)
(* character, a bracketed evidence token, a marker or a placeholder.  The  *)
(* regular expressions and string methods of the source are modelled by    *)
(* what they do on these lexemes.                                          *)
(***************************************************************************)
EXTENDS Integers, Sequences, FiniteSets, TLC

(***************************************************************************)
(* Atoms                                                                   *)
(***************************************************************************)
Atom(k, a, n) == [k |-> k, a |-> a, n |-> n]

Tok(ty, n)     == Atom("tok", ty, n)          \* "[EVT#1]", "[CIT#2]", ...
Word(w)        == Atom("word", w, 0)          \* a run of letters
Phrase(w)      == Atom("phrase", w, 0)        \* several different words
Punct          == Atom("punct", ".", 0)       \* one of . ! ?
Sp             == Atom("ws", "sp", 0)         \* " "
Nl             == Atom("ws", "nl", 0)         \* "\n"
Omitted        == Atom("omitted", "(Omitted pending source)", 0)
Missing        == Atom("missing", "[MISSING]", 0)
Invalid(ty, n) == Atom("invalid", ty, n)      \* "[INVALID_EVT#9_]"
DateAtom(d)    == Atom("date", "iso", d)      \* "2002-06-05" as 20020605
DmyAtom(d)     == Atom("dmy", "dmy", d)       \* "05/06/2002"
CodeAtom(c)    == Atom("code", c, 0)          \* a legal-event code
IdAtom(id)     == Atom("id", id, 0)           \* a citation identifier
Dash           == Atom("dash", "-", 0)        \* the separator of block lines
NumAtom(n)     == Atom("num", "", n)          \* "1." ordinal of a ranked line

IsWs(x)      == x.k = "ws"
IsTok(x)     == x.k = "tok"

(***************************************************************************)
(* Sequence helpers                                                        *)
(***************************************************************************)
Last(s) == s[Len(s)]

RECURSIVE Flatten(_, _)
\* sep.join(parts)
Flatten(parts, sep) ==
    IF parts = <<>> THEN <<>>
    ELSE IF Len(parts) = 1 THEN parts[1]
    ELSE parts[1] \o sep \o Flatten(Tail(parts), sep)

RECURSIVE LStrip(_)
LStrip(t) == IF t # <<>> /\ IsWs(t[1]) THEN LStrip(Tail(t)) ELSE t

RECURSIVE RStrip(_)
RStrip(t) ==
    IF t # <<>> /\ IsWs(Last(t)) THEN RStrip(SubSeq(t, 1, Len(t) - 1)) ELSE t

\* str.strip()
Strip(t) == RStrip(LStrip(t))

ContainsKind(t, kind) == \E i \in 1..Len(t) : t[i].k = kind

\* re.findall(r'\[(EVT#\d+|CIT#\d+|CLM#\d+|DSG#\d+)\]', s): the tokens, in order
TokensOf(t) == SelectSeq(t, IsTok)

\* the key of the Token Index a token atom names
TokKey(x) == <<x.a, x.n>>

RECURSIVE SplitOn(_, _, _)
\* re.split(r'(?<=[.!?])\s+', t): a whitespace run that directly follows a
\* punctuation mark ends the sentence; cur is the sentence being read.
SplitOn(t, cur, acc) ==
    IF t = <<>> THEN Append(acc, cur)
    ELSE IF IsWs(t[1]) /\ cur # <<>> /\ Last(cur) = Punct
         THEN SplitOn(LStrip(t), <<>>, Append(acc, cur))
         ELSE SplitOn(Tail(t), Append(cur, t[1]), acc)

\* re.split(r'(?<=[.!?])\s+', text.strip())
ReSplitSentences(text) == SplitOn(Strip(text), <<>>, <<>>)

RECURSIVE SplitLinesRec(_, _, _)
SplitLinesRec(t, cur, acc) ==
    IF t = <<>> THEN Append(acc, cur)
    ELSE IF t[1] = Nl THEN SplitLinesRec(Tail(t), <<>>, Append(acc, cur))
         ELSE SplitLinesRec(Tail(t), Append(cur, t[1]), acc)

\* text.split("\n")
SplitLines(text) == SplitLinesRec(text, <<>>, <<>>)

NonEmpty(s) == s # <<>>

\* [f(x) for x in s]
MapSeq(s, F(_)) == [i \in 1..Len(s) |-> F(s[i])]

RECURSIVE ConcatAll(_)
\* "".join(parts)
ConcatAll(parts) == IF parts = <<>> THEN <<>> ELSE parts[1] \o ConcatAll(Tail(parts))

RECURSIVE SplitWords(_, _, _)
\* line.split(): the maximal runs of non-whitespace; cur is the run being read
SplitWords(t, cur, acc) ==
    IF t = <<>> THEN (IF cur = <<>> THEN acc ELSE Append(acc, cur))
    ELSE IF IsWs(t[1])
         THEN SplitWords(Tail(t), <<>>, IF cur = <<>> THEN acc ELSE Append(acc, cur))
         ELSE SplitWords(Tail(t), Append(cur, t[1]), acc)

(***************************************************************************)
(* Guardrails (src/src/app.py)                                             *)
(***************************************************************************)
\* _split_sentences
split_sentences(text) ==
    SelectSeq(MapSeq(ReSplitSentences(text), Strip), NonEmpty)

\* one sentence of enforce_token_citations: only the first token is looked at,
\* and an empty valid_tokens accepts every token
EnforceSentence(s, valid_tokens) ==
    LET toks == TokensOf(s)
    IN IF toks # <<>> /\ (valid_tokens = {} \/ TokKey(toks[1]) \in valid_tokens)
       THEN s
       ELSE s \o <<Sp, Missing>>

enforce_token_citations(text, valid_tokens) ==
    LET sents == SelectSeq(ReSplitSentences(text), NonEmpty)
    IN Flatten([i \in 1..Len(sents) |-> EnforceSentence(sents[i], valid_tokens)], <<Sp>>)

\* s.replace("[", "[INVALID_").replace("]", "_]"): every bracketed lexeme of
\* the sentence is rewritten, the [MISSING] marker included
MarkInvalidAtom(x) ==
    IF x.k = "tok" THEN Invalid(x.a, x.n)
    ELSE IF x.k = "missing" THEN Invalid("MISSING", 0)
    ELSE x

ValidateSentence(s, valid_tokens) ==
    LET toks == TokensOf(s)
        allValid == \A i \in 1..Len(toks) : TokKey(toks[i]) \in valid_tokens
    IN IF toks # <<>> /\ allValid THEN s
       ELSE IF toks # <<>> THEN MapSeq(s, MarkInvalidAtom) \o <<Sp, Missing>>
       ELSE s

validate_tokens(text, token_index) ==
    LET sents == SelectSeq(ReSplitSentences(text), NonEmpty)
    IN Flatten([i \in 1..Len(sents) |-> ValidateSentence(sents[i], DOMAIN token_index)],
               <<Sp>>)

\* a sentence is dropped when it ends with the [MISSING] marker
KeepCited(s) == s # <<>> /\ Last(s) # Missing

drop_uncited_sentences(text) ==
    Flatten(SelectSeq(ReSplitSentences(text), KeepCited), <<Sp>>)

ProsecutionInterpretation == <<Word("prosecution"), Sp, Word("interpretation")>>

\* text.replace("estoppel", "prosecution interpretation"): str.replace is
\* case-sensitive, so only the lower-case spelling is rewritten
SanitizeAtom(x) == IF x = Word("estoppel") THEN ProsecutionInterpretation ELSE <<x>>

sanitize_ep_language(text, jurisdiction) ==
    IF jurisdiction = "EP" THEN ConcatAll(MapSeq(text, SanitizeAtom)) ELSE text

\* a weaker test than "(Omitted" in s: the placeholder at the start of s only
HasOmittedAtStart(s) == s # <<>> /\ s[1].k = "omitted"

\* "(Omitted" in s
HasOmitted(s) == ContainsKind(s, "omitted")

StartsWithMissing(s) == s # <<>> /\ s[1] = Missing

\* a day/month/year date of the text is rewritten to ISO by the re.sub
NormalizeDateAtom(x) == IF x.k = "dmy" THEN DateAtom(x.n) ELSE x

KeepLine(line) ==
    /\ ~HasOmitted(line)
    /\ ~StartsWithMissing(line)
    /\ ~ContainsKind(line, "invalid")
    /\ line # <<>>

remove_placeholders_and_normalize(text) ==
    IF text = <<>> THEN <<>>
    ELSE Flatten(MapSeq(SelectSeq(MapSeq(SplitLines(text), Strip), KeepLine),
                        LAMBDA line : MapSeq(line, NormalizeDateAtom)), <<Nl>>)

\* lines 1148-1152: the guardrail chain applied to the generated text
GuardrailChain(llm_text, valid_tokens, token_index) ==
    remove_placeholders_and_normalize(
      sanitize_ep_language(
        drop_uncited_sentences(
          validate_tokens(enforce_token_citations(llm_text, valid_tokens), token_index)),
        "EP"))

EndsWithToken(s) == s # <<>> /\ IsTok(Last(s))

\* lines 1155-1161: sentences that end with a token of the index
CandidateBullets(text, valid_tokens) ==
    LET cand == SelectSeq(split_sentences(text), EndsWithToken)
        Known(s) == TokKey(Last(s)) \in valid_tokens
    IN SelectSeq(cand, Known)

RECURSIVE DedupWords(_, _)
DedupWords(words, prev) ==
    IF words = <<>> THEN <<>>
    ELSE IF words[1] = prev /\ ~ContainsKind(words[1], "phrase")
         THEN DedupWords(Tail(words), prev)
         ELSE <<words[1]>> \o DedupWords(Tail(words), words[1])

\* deduplicate_line: drop a word equal to the word before it (a phrase ends
\* and begins with different words, so a repeated phrase is kept)
deduplicate_line(line) == Flatten(DedupWords(SplitWords(line, <<>>, <<>>), <<>>), <<Sp>>)

RECURSIVE DedupLines(_, _)
\* the seen-set of the clean_lines loop: the first occurrence of a line is kept
DedupLines(lines, seen) ==
    IF lines = <<>> THEN <<>>
    ELSE IF lines[1] \in seen THEN DedupLines(Tail(lines), seen)
         ELSE <<lines[1]>> \o DedupLines(Tail(lines), seen \cup {lines[1]})

\* line 1435
KeepBullet(b) == b # <<>> /\ ~StartsWithMissing(b) /\ ~HasOmitted(b)

\* the filter of the clean_lines loop without its exactly-one-token test
CleanLineAnyCount(ln, token_index) ==
    /\ ~(HasOmitted(ln) \/ ContainsKind(ln, "missing") \/ ContainsKind(ln, "invalid"))
    /\ \A i \in 1..Len(TokensOf(ln)) : TokKey(TokensOf(ln)[i]) \in DOMAIN token_index

\* lines 1448-1460: the filter of the clean_lines loop
CleanLine(ln, token_index) ==
    /\ ~(HasOmitted(ln) \/ ContainsKind(ln, "missing") \/ ContainsKind(ln, "invalid"))
    /\ Len(TokensOf(ln)) = 1
    /\ TokKey(TokensOf(ln)[1]) \in DOMAIN token_index

\* lines 1435-1484: from the bullets to the lines of the section text
FinalizeLines(bullets, token_index) ==
    LET kept  == SelectSeq(bullets, KeepBullet)
        text0 == Flatten(kept, <<Nl>>)
        text1 == remove_placeholders_and_normalize(sanitize_ep_language(text0, "EP"))
        lines == SelectSeq(MapSeq(SplitLines(text1), Strip), NonEmpty)
        IsClean(ln) == CleanLine(ln, token_index)
        clean == DedupLines(SelectSeq(lines, IsClean), {})
    IN MapSeq(clean, deduplicate_line)

(***************************************************************************)
(* Dates.  A raw date is [fmt, v]: fmt is the notation of the raw string   *)
(* ("ymd8" for eight digits, "iso", "text" for anything dateutil parses,   *)
(* "bad" for a string no parser accepts, "none" for no date) and v is the  *)
(* calendar date as the number YYYYMMDD.  ISO strings compare as v does.   *)
(***************************************************************************)
NowYear == 2026

RawDate(fmt, v) == [fmt |-> fmt, v |-> v]
IsoDate(v)      == RawDate("iso", v)
NoDate          == RawDate("none", 0)

YearOf(v) == v \div 10000

\* normalize_date_to_iso: None (NoDate) if empty, unparseable or out of range
normalize_date_to_iso(raw) ==
    IF raw.fmt = "none" THEN NoDate
    ELSE IF raw.fmt = "bad" THEN NoDate
    ELSE IF YearOf(raw.v) < 1900 \/ YearOf(raw.v) > NowYear + 1 THEN NoDate
    ELSE IsoDate(raw.v)

(***************************************************************************)
(* Event codes.  The raw codes the model draws from, with the results of   *)
(* str.strip().upper() and str.lower() on them.                            *)
(***************************************************************************)
MappedCodes == {"17P", "INTG", "26N", "GBPC", "OPP", "LAPSE", "CEASED", "GRANT"}

\* a lookup that strips the code and keeps its case
StripOnly(c) == IF c = " INTG" THEN "INTG" ELSE c

\* code.strip().upper()
StripUpper(c) ==
    CASE c = "intg" -> "INTG"
      [] c = " INTG" -> "INTG"
      [] c = "xyz" -> "XYZ"
      [] OTHER -> c

\* f"unmapped_{code.lower()}"
UnmappedTag(c) ==
    CASE c = "XYZ" -> "unmapped_xyz"
      [] c = "ABC" -> "unmapped_abc"
      [] OTHER -> "unmapped_other"

\* EVENT_CODE_MAPPING[code]["effects"]
MappingEffects(c) ==
    CASE c = "17P" -> <<"examination_requested">>
      [] c = "INTG" -> <<"grant_intended">>
      [] c = "26N" -> <<"no_opposition">>
      [] c = "GBPC" -> <<"lapse_national", "scope_narrowed">>
      [] c = "OPP" -> <<"opposition">>
      [] c = "LAPSE" -> <<"lapse_national">>
      [] c = "CEASED" -> <<"lapse_national">>
      [] c = "GRANT" -> <<"grant">>

\* EVENT_CODE_MAPPING[code]["desc"]
MappingDesc(c) ==
    CASE c = "17P" -> "examination request filed"
      [] c = "INTG" -> "intention to grant announced"
      [] c = "26N" -> "no opposition filed"
      [] c = "GBPC" -> "patent ceased in GB due to non-payment"
      [] c = "OPP" -> "opposition filed"
      [] c = "LAPSE" -> "patent lapsed"
      [] c = "CEASED" -> "patent ceased"
      [] c = "GRANT" -> "patent granted"

\* An event is [date, code, desc, effects, path]; path is <<member, event>>,
\* the two indexes of the JSON path of its ops:legal node.
Event(date, code, desc, effects, path) ==
    [date |-> date, code |-> code, desc |-> desc, effects |-> effects, path |-> path]

normalize_event(event) ==
    LET code == StripUpper(event.code)
        e1 == IF code \in MappedCodes
              THEN [event EXCEPT !.code = code,
                                 !.effects = MappingEffects(code),
                                 !.desc = MappingDesc(code)]
              ELSE IF event.effects = <<>> \/ event.effects = <<"unknown">>
                   THEN [event EXCEPT !.effects =
                            IF code # "" THEN <<UnmappedTag(code)>> ELSE <<"unknown">>]
                   ELSE event
        iso == normalize_date_to_iso(e1.date)
    IN IF e1.date.fmt # "none" /\ iso # NoDate THEN [e1 EXCEPT !.date = iso] ELSE e1

(***************************************************************************)
(* Sorting.  sorted() is stable: an element is inserted after the elements *)
(* whose key is not greater.  keys is the sequence of the elements' keys,  *)
(* each a pair (a, b) of numbers, compared as Python compares tuples.      *)
(***************************************************************************)
\* tuple comparison: (a1, a2) <= (b1, b2)
KeyLeq(a, b) == a[1] < b[1] \/ (a[1] = b[1] /\ a[2] <= b[2])

RECURSIVE InsertSorted(_, _)
InsertSorted(p, s) ==
    IF s = <<>> THEN <<p>>
    ELSE IF KeyLeq(s[1].key, p.key) THEN <<s[1]>> \o InsertSorted(p, Tail(s))
         ELSE <<p>> \o s

RECURSIVE SortPairs(_)
SortPairs(ps) ==
    IF ps = <<>> THEN <<>>
    ELSE InsertSorted(Last(ps), SortPairs(SubSeq(ps, 1, Len(ps) - 1)))

\* sorted(s, key=...), keys[i] the key of s[i]
SortByKey(s, keys) ==
    LET sorted == SortPairs([i \in 1..Len(s) |-> [key |-> keys[i], val |-> s[i]]])
    IN [i \in 1..Len(s) |-> sorted[i].val]

\* sorted(s, key=..., reverse=True): stable too, equal keys keep their order
SortByKeyDesc(s, keys) ==
    LET Reverse(x) == [i \in 1..Len(x) |-> x[Len(x) + 1 - i]]
    IN Reverse(SortByKey(Reverse(s), Reverse(keys)))

Take(s, n) == SubSeq(s, 1, IF Len(s) < n THEN Len(s) ELSE n)

\* the order of code strings the model draws from (str comparison)
CodeOrd(c) ==
    CASE c = "" -> 0
      [] c = " INTG" -> 1
      [] c = "17P" -> 2
      [] c = "26N" -> 3
      [] c = "ABC" -> 4
      [] c = "CEASED" -> 5
      [] c = "GBPC" -> 6
      [] c = "GRANT" -> 7
      [] c = "INTG" -> 8
      [] c = "LAPSE" -> 9
      [] c = "OPP" -> 10
      [] c = "XYZ" -> 11
      [] c = "intg" -> 12
      [] c = "xyz" -> 13

(***************************************************************************)
(* The fetched patent record (the nested mapping EPOClient returns).       *)
(*   exdoc  the shape of bibliographic ... "exchange-document"             *)
(*   family the shape of the legal part: "lists" (ops:family-member a list *)
(*          of one member whose ops:legal is a list), "legal_mapping" (the *)
(*          member's ops:legal a single mapping), "member_mapping"         *)
(*          (ops:family-member a single mapping)                           *)
(*   legal  the ops:legal events of the family member, in record order     *)
(*   refs   the texts of references-cited, in record order                 *)
(*   claims the claim texts ClaimsParser finds                             *)
(* A raw legal event is [date, code, desc, cites]: date the raw date the   *)
(* extractor reads (the effective date of the text, else @date), cites the *)
(* citation-like substrings of its ops:pre text.                           *)
(***************************************************************************)
RawEvent(date, code, desc, cites) ==
    [date |-> date, code |-> code, desc |-> desc, cites |-> cites]

\* effects_map.get(code, ["unknown"]) of extract_events_for_viz (exact match)
VizEffects(c) ==
    CASE c = "17P" -> <<"examination_requested">>
      [] c = "INTG" -> <<"grant_intended">>
      [] c = "26N" -> <<"no_opposition">>
      [] c = "GBPC" -> <<"lapse_national">>
      [] OTHER -> <<"unknown">>

\* the date strptime / dateutil reads from the raw string, NoDate on failure
ParseRawDate(raw) ==
    IF raw.fmt \in {"none", "bad"} THEN NoDate ELSE IsoDate(raw.v)

VizKeep(raw) ==
    /\ ParseRawDate(raw.date) # NoDate
    /\ YearOf(raw.date.v) >= 1900
    /\ YearOf(raw.date.v) <= NowYear + 1

RECURSIVE VizEvents(_, _)
\* the loop of extract_events_for_viz over the events of member 0
VizEvents(legal, e_idx) ==
    IF e_idx > Len(legal) THEN <<>>
    ELSE LET raw == legal[e_idx]
         IN (IF VizKeep(raw)
             THEN <<Event(ParseRawDate(raw.date), raw.code, raw.desc,
                          VizEffects(raw.code), <<0, e_idx - 1>>)>>
             ELSE <<>>) \o VizEvents(legal, e_idx + 1)

\* line 429 under "member_mapping": enumerate() of the mapping yields its keys,
\* "ops:legal" in "ops:legal" holds and member["ops:legal"] indexes a string
VizRaises(data) == data.family = "member_mapping" /\ data.legal # <<>>

\* the events in the order of the record, not sorted
VizUnsorted(data) == IF data.family = "lists" THEN VizEvents(data.legal, 1) ELSE <<>>

\* sorted(events, key=lambda x: (x["date"], x.get("code", ""))); under
\* "legal_mapping" the inner loop runs over the keys of the mapping, which are
\* not dicts and are skipped (lines 430-431)
extract_events_for_viz(data) ==
    LET events == IF data.family = "lists" THEN VizEvents(data.legal, 1) ELSE <<>>
    IN SortByKey(events,
                 [i \in 1..Len(events) |->
                     <<events[i].date.v, CodeOrd(events[i].code)>>])

(***************************************************************************)
(* Citations (src/src/prior_art_correlator.py)                             *)
(***************************************************************************)
\* normalize_citation: country + number + kind of the raw text, "" when the
\* pattern does not match
NormKey(raw) ==
    CASE raw = "EP 99203729A" -> "EP99203729A"
      [] raw = "EP99203729A" -> "EP99203729A"
      [] raw = "US2002/0123456" -> "US2002"
      [] raw = "US2002" -> "US2002"
      [] OTHER -> ""

RECURSIVE DedupRaw(_, _)
\* seen_citations of extract_citations: the first occurrence of a text is kept
DedupRaw(cs, seen) ==
    IF cs = <<>> THEN <<>>
    ELSE IF cs[1].raw \in seen \/ cs[1].raw = "" THEN DedupRaw(Tail(cs), seen)
         ELSE <<cs[1]>> \o DedupRaw(Tail(cs), seen \cup {cs[1].raw})

RECURSIVE LegalCites(_)
LegalCites(legal) ==
    IF legal = <<>> THEN <<>>
    ELSE [i \in 1..Len(legal[1].cites) |-> [source |-> "legal", raw |-> legal[1].cites[i]]]
         \o LegalCites(Tail(legal))

extract_citations(data) ==
    DedupRaw([i \in 1..Len(data.refs) |->
                [source |-> "bibliographic", raw |-> data.refs[i]]]
             \o LegalCites(data.legal), {})

\* a result for every extracted citation, whatever its key
KeepEveryKey(cs, seen) ==
    [i \in 1..Len(cs) |->
        [citation |-> NormKey(cs[i].raw), raw |-> cs[i].raw, source |-> cs[i].source]]

RECURSIVE DedupKey(_, _)
\* seen_citations of match_to_rejections: one result per citation_key
DedupKey(cs, seen) ==
    IF cs = <<>> THEN <<>>
    ELSE IF NormKey(cs[1].raw) \in seen THEN DedupKey(Tail(cs), seen)
         ELSE <<[citation |-> NormKey(cs[1].raw), raw |-> cs[1].raw,
                 source |-> cs[1].source]>>
              \o DedupKey(Tail(cs), seen \cup {NormKey(cs[1].raw)})

match_to_rejections(data) == DedupKey(extract_citations(data), {})

\* lines 47-49 and 93-95 when a collection is a single mapping: the loops run
\* over its keys, and member.get / ev.get on a string is an AttributeError
CorrelatorRaises(data) == data.family # "lists" /\ data.legal # <<>>

\* f"CIT:{i-1}"
FabId(i) ==
    CASE i = 0 -> "CIT:0" [] i = 1 -> "CIT:1" [] i = 2 -> "CIT:2" [] OTHER -> "CIT:n"

\* lines 988-1000: the citations of the extract
SimplifiedCitations(raw_cits) ==
    [i \in 1..Len(raw_cits) |->
        [id |-> IF raw_cits[i].citation # "" THEN raw_cits[i].citation ELSE FabId(i - 1),
         kind |-> raw_cits[i].source,
         path |-> i - 1,
         closest_limits |-> "",
         workaround |-> "",
         token_idx |-> i]]

\* line 1003: the claims of the extract, from the session's claims
ExtractClaims(claims) ==
    [i \in 1..Len(claims) |-> [claim_no |-> i, text |-> claims[i]]]

\* ClaimsParser.extract_claims
extract_claims(data) == data.claims

(***************************************************************************)
(* Token Index                                                             *)
(***************************************************************************)
Meta(type, path, date, code, effects, id, kind, claim_no) ==
    [type |-> type, path |-> path, date |-> date, code |-> code,
     effects |-> effects, id |-> id, kind |-> kind, claim_no |-> claim_no]

EventMeta(e)    == Meta("event", e.path, e.date, e.code, e.effects, "", "", 0)
CitationMeta(c) == Meta("citation", <<c.path>>, NoDate, "", <<>>, c.id, c.kind, 0)
ClaimMeta(c)    == Meta("claim", <<>>, NoDate, "", <<>>, "", "", c.claim_no)

\* enumerate(seq): numbering from 0 instead of 1
TokenNumberFromZero(idx) == idx - 1

\* enumerate(seq, 1): the number of the token of the idx-th entity (idx from 1)
TokenNumber(idx) == idx

IndexEntries(ty, seq, MetaOf(_)) ==
    {<<<<ty, TokenNumber(i)>>, MetaOf(seq[i])>> : i \in 1..Len(seq)}

build_token_index(extract) ==
    LET entries == IndexEntries("EVT", extract.events, EventMeta)
                   \cup IndexEntries("CIT", extract.citations, CitationMeta)
                   \cup IndexEntries("CLM", extract.claims, ClaimMeta)
    IN [k \in {p[1] : p \in entries} |-> (CHOOSE p \in entries : p[1] = k)[2]]

(***************************************************************************)
(* The deterministic blocks                                                *)
(***************************************************************************)
\* a priority table that knows the grant only
PriorityGrantOnly(effect) == IF effect = "grant" THEN 5 ELSE 0

\* the priority table of render_top_pivotal_events
Priority(effect) ==
    CASE effect = "grant" -> 5
      [] effect = "grant_intended" -> 4
      [] effect = "no_opposition" -> 4
      [] effect = "opposition" -> 3
      [] effect = "scope_narrowed" -> 2
      [] effect = "lapse_national" -> 3
      [] effect = "examination_requested" -> 1
      [] effect = "term_changed" -> 2
      [] effect = "designation_recorded" -> 1
      [] OTHER -> 0

RECURSIVE MaxPriority(_)
\* max((priority.get(x, 0) for x in effects), default=0)
MaxPriority(effects) ==
    IF effects = <<>> THEN 0
    ELSE IF Priority(effects[1]) >= MaxPriority(Tail(effects)) THEN Priority(effects[1])
         ELSE MaxPriority(Tail(effects))

\* eff.replace("_", " ")
EffectWords(eff) ==
    CASE eff = "unknown" -> "unknown"
      [] eff = "unmapped_xyz" -> "unmapped xyz"
      [] eff = "unmapped_abc" -> "unmapped abc"
      [] eff = "lapse_national" -> "lapse national"
      [] OTHER -> eff

Semi == Atom("semi", ";", 0)

\* "; ".join(effect_descs) or "event recorded"
EffectStr(e) ==
    LET descs == [i \in 1..Len(e.effects) |->
                    <<Phrase(IF e.code \in MappedCodes THEN MappingDesc(e.code)
                             ELSE EffectWords(e.effects[i]))>>]
    IN IF descs = <<>> THEN <<Phrase("event recorded")>> ELSE Flatten(descs, <<Semi, Sp>>)

Min(S) == CHOOSE x \in S : \A y \in S : x <= y

\* next((i+1 for i, ev in enumerate(events) if ...), idx): the position of the
\* first event of the original list with this code and date, else the display index
TopTokenIdx(events, e, idx) ==
    LET positions == {i \in 1..Len(events) :
                        events[i].code = e.code /\ events[i].date = e.date}
    IN IF positions # {} THEN Min(positions) ELSE idx

SepDash == <<Sp, Dash, Sp>>

TopLine(events, e, idx) ==
    <<DateAtom(e.date.v)>> \o SepDash \o <<CodeAtom(e.code)>> \o SepDash
      \o EffectStr(e) \o SepDash \o <<Tok("EVT", TopTokenIdx(events, e, idx))>>

\* the events chosen by priority, left in the order of the choice
TopEventsByPriority(events) ==
    LET normalized == MapSeq(events, normalize_event)
    IN Take(SortByKeyDesc(normalized,
              [i \in 1..Len(normalized) |->
                 <<MaxPriority(normalized[i].effects), normalized[i].date.v>>]), 3)

\* the events chosen by render_top_pivotal_events, in display order
TopEvents(events) ==
    LET normalized == MapSeq(events, normalize_event)
        top_by_priority ==
            Take(SortByKeyDesc(normalized,
                   [i \in 1..Len(normalized) |->
                      <<MaxPriority(normalized[i].effects), normalized[i].date.v>>]), 3)
    IN SortByKey(top_by_priority,
                 [i \in 1..Len(top_by_priority) |-> <<top_by_priority[i].date.v, 0>>])

\* render_top_pivotal_events: the lines of the block
render_top_pivotal_events(events) ==
    LET top == TopEvents(events)
    IN [i \in 1..Len(top) |-> TopLine(events, top[i], i)]

kind_score(kind) ==
    CASE kind = "examiner" -> 3
      [] kind = "legal" -> 2
      [] kind = "applicant" -> 1
      [] OTHER -> 0

kind_to_risk(kind) ==
    CASE kind = "examiner" -> "novelty"
      [] kind = "legal" -> "obviousness"
      [] OTHER -> "screening-only"

\* the order of the citation identifiers the model draws from (str comparison)
IdOrd(id) ==
    CASE id = "" -> 0
      [] id = "CIT:0" -> 1
      [] id = "CIT:1" -> 2
      [] id = "CIT:2" -> 3
      [] id = "CIT:n" -> 4
      [] id = "EP99203729A" -> 5
      [] id = "US2002" -> 6

\* a limitation or workaround is added unless empty or the placeholder
OptionalPart(txt) ==
    IF txt # "" /\ txt # "(Omitted pending source)" THEN SepDash \o <<Phrase(txt)>> ELSE <<>>

RankedLine(c, idx) ==
    <<NumAtom(idx), Sp, IdAtom(IF c.id # "" THEN c.id ELSE "CIT:?")>> \o SepDash
      \o <<Word(kind_to_risk(c.kind))>>
      \o OptionalPart(c.closest_limits) \o OptionalPart(c.workaround)
      \o SepDash \o <<Tok("CIT", IF c.token_idx # 0 THEN c.token_idx ELSE idx)>>

\* render_ranked_citations: the lines of the block, over
\* sorted(citations, key=(kind_score, id), reverse=True)[:5]
render_ranked_citations(citations) ==
    LET ranked == Take(SortByKeyDesc(citations,
                         [i \in 1..Len(citations) |->
                            <<kind_score(citations[i].kind), IdOrd(citations[i].id)>>]), 5)
    IN [i \in 1..Len(ranked) |-> RankedLine(ranked[i], i)]

(***************************************************************************)
(* deterministic_bullets_for (lines 1164-1422)                             *)
(***************************************************************************)
\* code.upper()
Upper(c) ==
    CASE c = "intg" -> "INTG"
      [] c = " INTG" -> " INTG"
      [] c = "xyz" -> "XYZ"
      [] OTHER -> c

\* marker in code
CodeHas(code, marker) == code = marker \/ (code = " INTG" /\ marker = "INTG")

CodeHasAny(code, markers) == \E m \in markers : CodeHas(code, m)

\* word in s, for the effect tags and descriptions of the model
TextHas(txt, word) ==
    CASE word = "grant" ->
           txt \in {"grant", "grant_intended", "patent granted",
                    "intention to grant announced"}
      [] word = "opposition" ->
           txt \in {"opposition", "no_opposition", "no opposition filed", "opposition filed"}
      [] word = "lapse" ->
           txt \in {"lapse_national", "lapse national", "patent lapsed"}
      [] word = "examination" ->
           txt \in {"examination_requested", "examination request filed"}
      [] word = "no_opposition" -> txt = "no_opposition"
      [] OTHER -> FALSE

AnyEffectHas(effects, word) == \E i \in 1..Len(effects) : TextHas(effects[i], word)

\* a sentence of the fallback: the prose, closed by a full stop, then the token
Bullet(prose, tok) == prose \o <<Punct, Sp, Tok(tok[1], tok[2])>>

Opt(cond, bullet) == IF cond THEN <<bullet>> ELSE <<>>

\* the bullets of the Executive Summary, in the order they are appended
ExecutiveBullets(evs, cits, valid_tokens, need) ==
    LET n == Len(evs)
        last == evs[n]
        code == Upper(last.code)
        b1 == Opt(n > 0 /\ <<"EVT", n>> \in valid_tokens,
                  Bullet((IF CodeHasAny(code, {"CEASED", "LAPSE", "GBPC"})
                          THEN <<Phrase("Patent rights lapsed on"), Sp, DateAtom(last.date.v)>>
                          ELSE IF CodeHas(code, "INTG")
                          THEN <<Phrase("Intention to grant issued on"), Sp,
                                 DateAtom(last.date.v)>>
                          ELSE IF CodeHas(code, "17P")
                          THEN <<Phrase("Examination filed on"), Sp, DateAtom(last.date.v),
                                 Semi, Sp>> \o ProsecutionInterpretation
                          ELSE <<CodeAtom(code), Sp, Phrase("event recorded on"), Sp,
                                 DateAtom(last.date.v)>>),
                         <<"EVT", n>>))
        no_opp == \E i \in 1..n : CodeHas(evs[i].code, "26N")
                                  \/ AnyEffectHas(evs[i].effects, "no_opposition")
        intg == \E i \in 1..n : CodeHas(evs[i].code, "INTG")
        first == {i \in 1..n : CodeHas(evs[i].code, "26N") \/ CodeHas(evs[i].code, "INTG")}
        tok2 == <<"EVT", IF first # {} THEN Min(first) ELSE n>>
        b2 == Opt(Len(b1) < need /\ n > 0 /\ (no_opp \/ intg) /\ tok2 \in valid_tokens,
                  Bullet(<<Phrase("No post-grant opposition was filed")>>, tok2))
        o2 == b1 \o b2
        b3 == Opt(Len(o2) < need /\ cits # <<>> /\ <<"CIT", 1>> \in valid_tokens,
                  Bullet(<<Word("Reference"), Sp, IdAtom(cits[1].id), Sp, Word("presents"),
                           Sp, Word(IF cits[1].kind = "examiner" THEN "novelty"
                                    ELSE IF cits[1].kind = "legal" THEN "obviousness"
                                    ELSE "screening"), Sp, Word("concerns")>>,
                         <<"CIT", 1>>))
        o3 == o2 \o b3
        b4 == Opt(Len(o3) < need /\ n > 0 /\ <<"EVT", 1>> \in valid_tokens,
                  Bullet(<<Phrase("Limited family scope")>>, <<"EVT", 1>>))
        o4 == o3 \o b4
        b5 == IF Len(o4) < need /\ cits # <<>> /\ n > 0
              THEN Opt(<<"CIT", 1>> \in valid_tokens,
                       Bullet(<<Word("Reference"), Sp, IdAtom(cits[1].id), Sp,
                                Phrase("may enable design-around opportunities")>>,
                              <<"CIT", 1>>))
              ELSE Opt(Len(o4) < need /\ n > 0 /\ <<"EVT", 1>> \in valid_tokens,
                       Bullet(<<Phrase("Prosecution history supports continuation")>>,
                              <<"EVT", 1>>))
    IN o4 \o b5

RECURSIVE DigitsOf(_)
\* the decimal digits of str(n)
DigitsOf(n) == IF n < 10 THEN {n} ELSE {n % 10} \cup DigitsOf(n \div 10)

\* the digits that occur in a lexeme
AtomDigits(x) ==
    CASE x.k = "date" -> DigitsOf(x.n)
      [] x.k = "tok" -> DigitsOf(x.n)
      [] x.k = "num" -> DigitsOf(x.n)
      [] x.k = "code" -> (CASE x.a = "17P" -> {1, 7} [] x.a = "26N" -> {2, 6}
                            [] OTHER -> {})
      [] OTHER -> {}

\* str(idx) in line, for a one-digit idx
DigitInLine(idx, line) == \E i \in 1..Len(line) : idx \in AtomDigits(line[i])

\* the bullet the Timeline fallback writes for one line of the Top 3 block
TimelineTopBullet(events, e, idx) ==
    LET code == Upper(e.code)
        descs == [i \in 1..Len(e.effects) |->
                    IF e.code \in MappedCodes THEN MappingDesc(e.code)
                    ELSE EffectWords(e.effects[i])]
        DescHas(w) == \E i \in 1..Len(descs) : TextHas(descs[i], w)
        prose == IF CodeHas(code, "INTG") \/ DescHas("grant")
                 THEN "independent claims are allowable"
                 ELSE IF CodeHas(code, "26N") \/ DescHas("opposition")
                 THEN "claim scope unlikely to be challenged"
                 ELSE IF CodeHasAny(code, {"LAPSE", "CEASED", "GBPC"}) \/ DescHas("lapse")
                 THEN "enforcement rights suspended unless restoration is filed"
                 ELSE IF CodeHas(code, "17P") \/ DescHas("examination")
                 THEN "prosecution history becomes binding"
                 ELSE "material prosecution event"
    IN Bullet(<<DateAtom(e.date.v), Word(":"), Sp, CodeAtom(code), Sp, Word("--"), Sp>>
                \o EffectStr(e) \o <<Semi, Sp, Phrase(prose)>>,
              <<"EVT", TopTokenIdx(events, e, idx)>>)

RECURSIVE TimelineFill(_, _, _, _, _, _)
\* the second loop of the Timeline fallback: events not named in the Top 3 lines
TimelineFill(evs, idx, top_lines, valid_tokens, need, out) ==
    IF idx > Len(evs) \/ Len(out) >= need THEN out
    ELSE LET e == evs[idx]
             skip == \/ \E i \in 1..Len(top_lines) : DigitInLine(idx, top_lines[i])
                     \/ <<"EVT", idx>> \notin valid_tokens
                     \/ CodeHasAny(Upper(e.code), {"17P", "INTG", "26N", "GBPC"})
             b == Bullet(<<DateAtom(e.date.v), Word(":"), Sp, CodeAtom(Upper(e.code)), Sp,
                           Word("--"), Sp, Phrase(e.desc), Semi, Sp,
                           Phrase("evaluate secondary prosecution implications")>>,
                         <<"EVT", idx>>)
         IN TimelineFill(evs, idx + 1, top_lines, valid_tokens, need,
                         IF skip THEN out ELSE Append(out, b))

TimelineBullets(evs, valid_tokens, need) ==
    LET top == TopEvents(evs)
        top_lines == render_top_pivotal_events(evs)
        Valid(i) == <<"EVT", TopTokenIdx(evs, top[i], i)>> \in valid_tokens
        good == SelectSeq([i \in 1..Len(top) |-> i], Valid)
        spine == Take([j \in 1..Len(good) |-> TimelineTopBullet(evs, top[good[j]], good[j])],
                      need)
    IN TimelineFill(evs, 1, top_lines, valid_tokens, need, spine)

\* the bullet the Prior Art fallback writes for one line of the ranked block
PriorArtBullet(line) ==
    LET tok == Last(line)
        cid == line[3]
        risk == line[7].a
        prose == IF risk = "novelty" THEN "raises direct novelty challenge"
                 ELSE IF risk = "obviousness" THEN "may support obviousness rejection"
                 ELSE "is screening-only"
    IN Bullet(<<Word("Reference"), Sp, cid, Sp, Phrase(prose)>>, TokKey(tok))

PriorArtBullets(cits, valid_tokens, need) ==
    LET ranked == render_ranked_citations(cits)
        Valid(line) == TokKey(Last(line)) \in valid_tokens
        good == SelectSeq(ranked, Valid)
        out == Take(MapSeq(good, PriorArtBullet), need)
    IN IF out = <<>> /\ cits # <<>>
       THEN Opt(<<"CIT", 1>> \in valid_tokens,
                Bullet(<<Phrase("Minimal prior-art citations in record")>>, <<"CIT", 1>>))
       ELSE out

RecommendationBullets(evs, cits, valid_tokens) ==
    LET n == Len(evs)
        IsLapse(e) == \/ AnyEffectHas(e.effects, "lapse")
                      \/ CodeHas(Upper(e.code), "CEASED")
                      \/ CodeHas(e.code, "GBPC")
        lapse_events == SelectSeq(evs, IsLapse)
        r1 == Opt(n > 0 /\ <<"EVT", n>> \in valid_tokens,
                  IF lapse_events # <<>>
                  THEN Bullet(<<Phrase("Confirm restoration procedures for lapsed event on"),
                                Sp, DateAtom(Last(lapse_events).date.v)>>, <<"EVT", n>>)
                  ELSE Bullet(<<Phrase("Preserve entire prosecution file")>>, <<"EVT", n>>))
        r2 == IF cits # <<>>
              THEN Opt(<<"CIT", 1>> \in valid_tokens,
                       Bullet(<<Phrase("Commission targeted invalidity analysis focused on"),
                                Sp, IdAtom(cits[1].id)>>, <<"CIT", 1>>))
              ELSE Opt(n > 0 /\ <<"EVT", 1>> \in valid_tokens,
                       Bullet(<<Phrase("Conduct independent prior-art search")>>,
                              <<"EVT", 1>>))
        tok3 == IF <<"EVT", 1>> \in valid_tokens THEN <<"EVT", 1>> ELSE <<"CIT", 1>>
        intg == \E i \in 1..n : CodeHas(evs[i].code, "INTG")
        r3 == Opt((n > 0 \/ cits # <<>>) /\ tok3 \in valid_tokens,
                  Bullet(<<Phrase(IF intg THEN "Intention to grant achieved"
                                  ELSE "Assess national validation roadmap")>>, tok3))
    IN r1 \o r2 \o r3

deterministic_bullets_for(key_name, extract_obj, valid_tokens, need) ==
    LET evs == MapSeq(extract_obj.events, normalize_event)
        cits == extract_obj.citations
        out == CASE key_name = "executive_summary" ->
                      ExecutiveBullets(evs, cits, valid_tokens, need)
                 [] key_name = "timeline_analysis" -> TimelineBullets(evs, valid_tokens, need)
                 [] key_name = "prior_art_analysis" -> PriorArtBullets(cits, valid_tokens, need)
                 [] key_name = "recommendations" ->
                      RecommendationBullets(evs, cits, valid_tokens)
    IN \* line 1421: only token-terminated sentences without a placeholder
       Take(SelectSeq(out, LAMBDA b : EndsWithToken(Strip(b)) /\ ~HasOmitted(b)), need)

(***************************************************************************)
(* One section of the report (lines 1126-1520)                             *)
(***************************************************************************)
section_order ==
    <<"executive_summary", "timeline_analysis", "prior_art_analysis", "recommendations">>

SectionTitle(key) ==
    CASE key = "executive_summary" -> "Executive Summary"
      [] key = "timeline_analysis" -> "Timeline Analysis"
      [] key = "prior_art_analysis" -> "Prior Art Analysis"
      [] key = "recommendations" -> "Evidence-Linked Recommendations"

\* line 1425
Required(key) == IF key = "recommendations" THEN 3 ELSE 5

\* lines 1148-1161: the bullets taken from the generated text
LlmBullets(llm_text, token_index) ==
    CandidateBullets(GuardrailChain(llm_text, DOMAIN token_index, token_index),
                     DOMAIN token_index)

\* a section that is never filled from the fallback
NoBackfill(key, bullets, extract, token_index) == <<>>

\* lines 1428-1431: the fallback bullets that fill a short section
Backfill(key, bullets, extract, token_index) ==
    IF Len(bullets) < Required(key)
    THEN deterministic_bullets_for(key, extract, DOMAIN token_index,
                                   Required(key) - Len(bullets))
    ELSE <<>>

\* the first token of a line: re.search(r'\[(EVT#\d+)\]', line)
FirstTokenKnown(line, ty, token_index) ==
    LET toks == SelectSeq(line, LAMBDA x : IsTok(x) /\ x.a = ty)
    IN toks # <<>> /\ TokKey(toks[1]) \in DOMAIN token_index

\* lines 1490-1500: the lines of the Top 3 block that name a known token
TopBlock(key, extract, token_index) ==
    IF key = "timeline_analysis" /\ extract.events # <<>>
    THEN SelectSeq(render_top_pivotal_events(extract.events),
                   LAMBDA line : FirstTokenKnown(line, "EVT", token_index))
    ELSE <<>>

\* lines 1502-1518
RankedBlock(key, extract, token_index) ==
    IF key = "prior_art_analysis" /\ extract.citations # <<>>
    THEN SelectSeq(render_ranked_citations(extract.citations),
                   LAMBDA line : FirstTokenKnown(line, "CIT", token_index))
    ELSE <<>>

\* analyses[title]: the lines of the section text, then the block under its header
Section(key, llm_text, extract, token_index) ==
    LET bullets == LlmBullets(llm_text, token_index)
        det == Backfill(key, bullets, extract, token_index)
        top == TopBlock(key, extract, token_index)
        ranked == RankedBlock(key, extract, token_index)
    IN [title  |-> SectionTitle(key),
        lines  |-> FinalizeLines(bullets \o det, token_index),
        header |-> IF top # <<>> THEN "Top 3 pivotal events"
                   ELSE IF ranked # <<>>
                   THEN (IF Len(extract.citations) >= 5 THEN "Ranked Top 5 citations"
                         ELSE "Ranked Citations")
                   ELSE "",
        block  |-> top \o ranked]

(***************************************************************************)
(* The report document.  The HTML is a sequence of elements in document    *)
(* order; an element is [el, title, lines]: its tag and class, the heading *)
(* or name it carries, and the lines of text it shows.                     *)
(***************************************************************************)
El(el, title, lines) == [el |-> el, title |-> title, lines |-> lines]

\* lines 1006-1011
Coverage(extract) ==
    [events_present |-> Len(extract.events),
     claims_present |-> Len(extract.claims),
     citations_present |-> Len(extract.citations),
     designations_present |-> 0]

\* html.escape on one lexeme: & < > and the quotes become entities
html_escape(x) ==
    IF x.k = "word" /\ x.a \in {"&", "<", ">"} THEN Atom("entity", x.a, 0) ELSE x

\* render_to_html: the text escaped, each "\n" a <br>: the pieces between
\* the <br>s, in order
render_to_html(text) ==
    LET EscapeLine(line) == MapSeq(line, html_escape)
    IN MapSeq(SplitLines(text), EscapeLine)

\* section_html of lines 1487-1518, as the template shows it
AnalysisEl(section) ==
    El("div.analysis", section.title,
       render_to_html(Flatten(section.lines, <<Nl>>))
         \o (IF section.header # ""
             THEN <<(<<Atom("strong", section.header, 0)>>)>>
                    \o render_to_html(Flatten(section.block, <<Nl>>))
             ELSE <<>>))

\* reporting.py 227-229: the banner the template itself renders
TemplateBanner(coverage) ==
    El("div.coverage-banner", "",
       <<(<<Word("Coverage:"), Sp, Word("events="), NumAtom(coverage.events_present),
            Word("claims="), NumAtom(coverage.claims_present),
            Word("citations="), NumAtom(coverage.citations_present),
            Word("designations="), NumAtom(coverage.designations_present)>>)>>)

\* reporting.py 240-247: one row of Key Prosecution Events
EventRow(e) ==
    El("div.event", "",
       <<(<<DateAtom(e.date.v), Sp, CodeAtom(e.code), Word(":"), Sp, Phrase(e.desc)>>)>>)

SectionEls(section) == <<El("h2", section.title, <<>>), AnalysisEl(section)>>

\* Template(REPORT_HTML_TEMPLATE).render(...)
RenderTemplate(analyses, events, coverage) ==
    <<El("h1", "Patent Analysis Report", <<>>), El("p.meta", "Generated", <<>>),
      TemplateBanner(coverage)>>
      \o SectionEls(analyses[1])
      \o SectionEls(analyses[2])
      \o <<El("h3", "Key Prosecution Events", <<>>)>> \o MapSeq(events, EventRow)
      \o SectionEls(analyses[3])
      \o SectionEls(analyses[4])

\* reporting.py 52-71: a token of the index becomes a clickable span that
\* still shows the token; another token is kept as it is
LinkAtom(x, token_index) ==
    IF IsTok(x) /\ TokKey(x) \in DOMAIN token_index THEN Atom("link", x.a, x.n) ELSE x

render_token_links(html, token_index) ==
    [i \in 1..Len(html) |->
       [html[i] EXCEPT !.lines =
          [j \in 1..Len(html[i].lines) |->
             [k \in 1..Len(html[i].lines[j]) |->
                LinkAtom(html[i].lines[j][k], token_index)]]]]

\* reporting.py 264-305
build_html_report(analyses, events, coverage, token_index) ==
    render_token_links(RenderTemplate(analyses, events, coverage), token_index)
      \o <<El("script", "token-click-handler", <<>>), El("script", "token-index", <<>>)>>

\* lines 1538-1544
coverage_line(coverage) ==
    El("p.strong-coverage", "",
       <<(<<Word("Coverage:"), Sp, Word("events="), NumAtom(coverage.events_present),
            Word("citations="), NumAtom(coverage.citations_present)>>)>>)

RECURSIVE InjectAfterH1(_, _)
\* lines 1548-1550: the line is inserted after the first </h1>
InjectAfterH1(html, line) ==
    IF html = <<>> THEN <<>>
    ELSE IF html[1].el = "h1" THEN <<html[1], line>> \o Tail(html)
    ELSE <<html[1]>> \o InjectAfterH1(Tail(html), line)

RECURSIVE DropRun(_, _)
\* the rest of html after its leading elements of tag el
DropRun(html, el) ==
    IF html # <<>> /\ html[1].el = el THEN DropRun(Tail(html), el) ELSE html

RECURSIVE CollapseStrongRuns(_, _)
\* lines 1553-1557: two or more adjacent <p><strong>Coverage:</strong>..</p>
\* become one coverage line
CollapseStrongRuns(html, line) ==
    IF html = <<>> THEN <<>>
    ELSE IF Len(html) >= 2 /\ html[1].el = "p.strong-coverage"
            /\ html[2].el = "p.strong-coverage"
    THEN <<line>> \o CollapseStrongRuns(DropRun(html, "p.strong-coverage"), line)
    ELSE <<html[1]>> \o CollapseStrongRuns(Tail(html), line)

RECURSIVE CollapsePlainPairs(_, _)
\* line 1560: two adjacent <p>Coverage:..</p> become one coverage line
CollapsePlainPairs(html, line) ==
    IF html = <<>> THEN <<>>
    ELSE IF Len(html) >= 2 /\ html[1].el = "p.coverage" /\ html[2].el = "p.coverage"
    THEN <<line>> \o CollapsePlainPairs(SubSeq(html, 3, Len(html)), line)
    ELSE <<html[1]>> \o CollapsePlainPairs(Tail(html), line)

\* lines 1535-1560: the document the audit reads
AssembleHtml(analyses, extract, token_index) ==
    LET coverage == Coverage(extract)
        line == coverage_line(coverage)
        html == build_html_report(analyses, extract.events, coverage, token_index)
    IN CollapsePlainPairs(CollapseStrongRuns(InjectAfterH1(html, line), line), line)

(***************************************************************************)
(* The audit (lines 1565-1628)                                             *)
(***************************************************************************)
\* every line of text of the document, in order
HtmlLines(html) == ConcatAll([i \in 1..Len(html) |-> html[i].lines])

\* the lexemes the document shows
HtmlAtoms(html) ==
    LET lines == HtmlLines(html)
    IN UNION {{lines[i][k] : k \in 1..Len(lines[i])} : i \in 1..Len(lines)}

\* "estoppel" in html.lower(): the word in any letter case
IsEstoppel(x) == x.k = "word" /\ x.a \in {"estoppel", "Estoppel", "ESTOPPEL"}

\* "prosecution interpretation" in html.lower()
HasProsecutionInterpretation(html) ==
    LET lines == HtmlLines(html)
    IN \E i \in 1..Len(lines) :
          \E j \in 1..(Len(lines[i]) - 2) :
             SubSeq(lines[i], j, j + 2) = ProsecutionInterpretation

CountEl(html, el) == Cardinality({i \in 1..Len(html) : html[i].el = el})

\* the checks of the audit, in order; fails holds the names of those that fail
Fails(html, coverage, token_index) ==
    LET atoms == HtmlAtoms(html)
        Has(kind) == \E x \in atoms : x.k = kind
        HasHeader(header) == Atom("strong", header, 0) \in atoms
    IN (IF Has("missing") THEN <<"missing">> ELSE <<>>)
       \o (IF Has("invalid") THEN <<"invalid">> ELSE <<>>)
       \o (IF (\E x \in atoms : IsEstoppel(x)) /\ ~HasProsecutionInterpretation(html)
           THEN <<"wording">> ELSE <<>>)
       \o (IF Has("omitted") THEN <<"placeholder">> ELSE <<>>)
       \o (IF CountEl(html, "p.strong-coverage") # 1 THEN <<"coverage">> ELSE <<>>)
       \o (IF coverage.events_present > 0 /\ ~HasHeader("Top 3 pivotal events")
           THEN <<"top3">> ELSE <<>>)
       \o (IF coverage.citations_present > 0
              /\ ~HasHeader(IF coverage.citations_present >= 5
                            THEN "Ranked Top 5 citations" ELSE "Ranked Citations")
           THEN <<"ranked">> ELSE <<>>)
       \o (IF \E x \in atoms : x.k \in {"tok", "link"} /\ TokKey(x) \notin DOMAIN token_index
           THEN <<"token">> ELSE <<>>)
       \o (IF \E i, j \in 1..Len(html) :
                 /\ i < j /\ html[i].el = "h2" /\ html[j].el = "h2"
                 /\ html[i].title = html[j].title
           THEN <<"header">> ELSE <<>>)

\* the text of one violation, as the warning banner shows it
FailMessage(f) ==
    CASE f = "missing" -> <<Phrase("Uncited sentences detected"), Sp, Missing>>
      [] f = "invalid" -> <<Phrase("Invalid token references detected"), Sp,
                            Atom("invalid", "", 0)>>
      [] f = "wording" -> <<Phrase("Wording violation:"), Sp, Word("estoppel"), Sp,
                            Phrase("used instead of")>> \o <<Sp>>
                            \o ProsecutionInterpretation
      [] OTHER -> <<Phrase(f)>>

\* a document written as assembled, whatever the audit found
WithoutWarning(html, fails) == html

\* lines 1619-1628: the warning banner is put before the document
WithWarning(html, fails) ==
    IF fails # <<>> THEN <<El("div.warning", "Quality Issues", MapSeq(fails, FailMessage))>>
                          \o html
    ELSE html

(***************************************************************************)
(* The entry of a report run (lines 972-1022) and the generation call       *)
(***************************************************************************)
\* get_patent_details indexes "exchange-document" with [0]: a KeyError when
\* the record holds one document as a mapping, an IndexError on an empty list
get_patent_details(data) == [raised |-> data.exdoc # "list"]

\* session_state.get("extract") or {}
NoExtract == [populated |-> FALSE, events |-> <<>>, citations |-> <<>>, claims |-> <<>>]

\* lines 979-1013: what the session already holds is kept, the rest is
\* extracted from the record
PopulateExtract(session_extract, data, pac, claims_session) ==
    [populated |-> TRUE,
     events    |-> IF session_extract.events # <<>> THEN session_extract.events
                   ELSE extract_events_for_viz(data),
     citations |-> IF session_extract.populated THEN session_extract.citations
                   ELSE IF CorrelatorRaises(pac) THEN <<>>
                   ELSE SimplifiedCitations(match_to_rejections(pac)),
     claims    |-> IF session_extract.populated THEN session_extract.claims
                   ELSE ExtractClaims(claims_session)]

\* PriorArtCorrelator.query_llm.  how is what happens to the call: "ok" (the
\* service answers with content), "no_key" (OPENROUTER_API_KEY unset),
\* "http_error" (network error, timeout, non-2xx status, malformed response)
\* or "session_error" (requests.Session() itself fails, so that the finally
\* clause raises).
query_llm(how, content) ==
    CASE how = "ok" -> [raised |-> FALSE, text |-> content]
      [] how = "no_key" ->
           [raised |-> FALSE,
            text |-> <<Phrase("LLM analysis not available - API key not found")>>]
      [] how = "http_error" ->
           [raised |-> FALSE, text |-> <<Phrase("Analysis failed:"), Sp, Phrase("error text")>>]
      [] how = "session_error" -> [raised |-> TRUE, text |-> <<>>]

\* lines 1135-1141
GeneratedText(how, content) ==
    IF query_llm(how, content).raised THEN <<>> ELSE query_llm(how, content).text

(***************************************************************************)
(* The prompt of a section (lines 1095-1113, 1126-1128)                    *)
(***************************************************************************)
\* the order of the token types in sorted(token_idx.keys()): the keys are
\* strings, "CIT#.." < "CLM#.." < "DSG#.." < "EVT#.." (numbers below 10)
TypeOrd(ty) ==
    CASE ty = "CIT" -> 1 [] ty = "CLM" -> 2 [] ty = "DSG" -> 3 [] ty = "EVT" -> 4

RECURSIVE SortedKeys(_)
\* sorted(token_idx.keys())
SortedKeys(keys) ==
    IF keys = {} THEN <<>>
    ELSE LET first == CHOOSE k \in keys :
                         \A o \in keys : KeyLeq(<<TypeOrd(k[1]), k[2]>>, <<TypeOrd(o[1]), o[2]>>)
         IN <<first>> \o SortedKeys(keys \ {first})

\* lines 1103-1108: the line of the token reference for tok, <<>> for a token
\* whose type is neither "event" nor "citation"
TokenRefLine(tok, meta) ==
    IF meta.type = "event"
    THEN <<[tok |-> tok, gloss |-> <<meta.date, meta.code, meta.effects>>]>>
    ELSE IF meta.type = "citation"
    THEN <<[tok |-> tok, gloss |-> <<meta.id, meta.kind>>]>>
    ELSE <<>>

RECURSIVE TokenRef(_, _)
\* the loop of lines 1103-1108 over the sorted keys
TokenRef(keys, token_idx) ==
    IF keys = <<>> THEN <<>>
    ELSE TokenRefLine(keys[1], token_idx[keys[1]]) \o TokenRef(Tail(keys), token_idx)

\* p + nudge + token_ref: the parts of the prompt text and the lines of the
\* token reference; extract_dict is not used
_build_prompt_with_tokens(base, token_idx, extract_dict) ==
    [text |-> <<base, "nudge", "AVAILABLE TOKENS">>,
     token_ref |-> TokenRef(SortedKeys(DOMAIN token_idx), token_idx)]

(***************************************************************************)
(* Bounds and inputs                                                       *)
(***************************************************************************)
MaxAnalyze == 2     \* Analyze operations in one session
MaxReports == 2     \* Generate Report operations in one session
MaxTextLen == 3     \* lexemes of a generated text (one section under test)
MaxEvents == 4      \* legal events of a generated record

\* the fetched records of the session
RecordA ==
    [exdoc  |-> "list", family |-> "lists",
     legal  |-> <<RawEvent(RawDate("ymd8", 20050102), "INTG", "d", <<"EP 99203729A">>),
                  RawEvent(RawDate("ymd8", 20020605), "17P", "d", <<>>)>>,
     refs   |-> <<"US2002/0123456">>,
     claims |-> <<"c1">>]

RecordB ==
    [exdoc  |-> "list", family |-> "lists",
     legal  |-> <<RawEvent(RawDate("ymd8", 20100304), "xyz", "d", <<>>),
                  RawEvent(RawDate("bad", 0), "26N", "d", <<>>),
                  RawEvent(RawDate("ymd8", 20120506), "GBPC", "d", <<"EP99203729A">>),
                  RawEvent(RawDate("text", 20110101), "intg", "d", <<>>)>>,
     refs   |-> <<>>,
     claims |-> <<"c1", "c2">>]

RecordC ==
    [exdoc  |-> "dict", family |-> "lists",
     legal  |-> <<RawEvent(RawDate("ymd8", 20110101), "26N", "d", <<>>)>>,
     refs   |-> <<"no number">>,
     claims |-> <<>>]

RecordD ==
    [exdoc |-> "list", family |-> "lists", legal |-> <<>>, refs |-> <<>>, claims |-> <<>>]

RecordE ==
    [exdoc |-> "empty_list", family |-> "lists", legal |-> <<>>, refs |-> <<>>,
     claims |-> <<"c1">>]

Records == {RecordA, RecordB, RecordC, RecordD, RecordE}

NoData ==
    [exdoc |-> "none", family |-> "lists", legal |-> <<>>, refs |-> <<>>, claims |-> <<>>]

\* the contents the service answers with in a session run
RunTexts ==
    { <<>>,
      <<Word("Estoppel"), Sp, Word("applies"), Sp, Tok("EVT", 1)>>,
      <<Word("estoppel"), Sp, DmyAtom(20020605), Sp, Tok("CIT", 1)>>,
      <<Word("x"), Sp, Tok("EVT", 1), Nl, Word("y"), Sp, Tok("EVT", 2)>> }

Outcomes == {"ok", "no_key", "http_error", "session_error"}

Failures == Outcomes \ {"ok"}

\* a generation call: what happens to it and, when it is answered, the content
Calls == {<<"ok", content>> : content \in RunTexts} \cup {<<f, <<>>>> : f \in Failures}

\* the lexemes of a generated text when one section is under test
Alphabet ==
    {Word("x"), Punct, Sp, Nl, Tok("EVT", 1), Tok("CIT", 1), Tok("EVT", 9),
     Omitted, Missing}

Texts(n) == UNION {[1..k -> Alphabet] : k \in 0..n}

SectionRecords == {RecordA, RecordD}

(***************************************************************************)
(* State                                                                   *)
(***************************************************************************)
VARIABLES
    data,                  \* session_state["data"], NoData before any fetch
    claims,                \* session_state["claims"]
    prior_art_correlator,  \* the record session_state["prior_art_correlator"] holds
    extract,               \* session_state["extract"]
    token_index,           \* session_state["token_index"]
    pc,                    \* where the session is: idle, sections, assemble, done, failed
    sec,                   \* the position of the section loop in section_order
    how,                   \* what happened to the last generation call
    llm_text,              \* the text handed to the guardrails for the last section
    empty_run,             \* every text handed over in this run was empty
    analyses,              \* the sections of the run, in section_order
    fails,                 \* the violations the audit found
    report,                \* the document written by the run, <<>> if none
    n_analyze,             \* Analyze operations so far
    n_reports,             \* Generate Report operations so far
    fcall,                 \* a function applied on its own: its argument and result
    epo                    \* the EPOClient object and the call_ops_api call in progress

vars == <<data, claims, prior_art_correlator, extract, token_index, pc, sec, how,
          llm_text, empty_run, analyses, fails, report, n_analyze, n_reports, fcall,
          epo>>

session == <<data, claims, prior_art_correlator, extract, token_index>>

\* epo_client.py lines 11-18: EPOClient() as constructed.  access_token and
\* token_expiry are None (0 here; issued tokens are numbered from 1, and the
\* clock never reads 0).  The other fields follow the call in progress.
EPOClient ==
    [access_token |-> 0, token_expiry |-> 0,
     now |-> 1000,            \* time.time()
     at |-> "idle",           \* idle, ensure, send, returned, raised
     depth |-> 0,             \* call_ops_api frames on the stack
     calls |-> 0,             \* call_ops_api calls made from outside
     issued |-> 0,            \* tokens the auth endpoint has issued
     lifetime |-> [issued_at |-> 0, expires_in |-> 0],  \* of the token held
     checked |-> [token |-> 0, expiry |-> 0, time |-> 0],  \* what line 45 read
     requested |-> FALSE,     \* line 46 ran on the last check
     token |-> 0,             \* the local token of line 51
     bearer |-> 0,            \* the token of the Authorization header sent
     error |-> "none"]        \* none, auth, request, recursion

\* no function is applied on its own
NoCall == [fn |-> "none", done |-> FALSE]

\* the locals of a run as a rerun of the script starts them
NoRun ==
    /\ sec' = 1
    /\ how' = "none"
    /\ llm_text' = <<>>
    /\ empty_run' = TRUE
    /\ analyses' = <<>>
    /\ fails' = <<>>
    /\ report' = <<>>

Init ==
    /\ data = NoData
    /\ claims = <<>>
    /\ prior_art_correlator = NoData
    /\ extract = NoExtract
    /\ token_index = build_token_index(NoExtract)
    /\ pc = "idle"
    /\ sec = 1
    /\ how = "none"
    /\ llm_text = <<>>
    /\ empty_run = TRUE
    /\ analyses = <<>>
    /\ fails = <<>>
    /\ report = <<>>
    /\ n_analyze = 0
    /\ n_reports = 0
    /\ fcall = NoCall
    /\ epo = EPOClient

Resting == pc \in {"idle", "done", "failed"}

\* lines 849-862: the Analyze button stores the fetched record and what is
\* derived from it; the script reruns, so the locals of an earlier run are gone
Analyze(record) ==
    /\ Resting
    /\ n_analyze < MaxAnalyze
    /\ data' = record
    /\ claims' = extract_claims(record)
    /\ prior_art_correlator' = record
    /\ UNCHANGED <<extract, token_index>>
    /\ pc' = "idle"
    /\ NoRun
    /\ n_analyze' = n_analyze + 1
    /\ UNCHANGED <<n_reports, fcall, epo>>

\* lines 972-1022: the Generate Report button, up to the Token Index
StartReport ==
    /\ Resting
    /\ data # NoData
    /\ n_reports < MaxReports
    /\ n_reports' = n_reports + 1
    /\ NoRun
    /\ UNCHANGED <<data, claims, prior_art_correlator, n_analyze, fcall, epo>>
    /\ IF get_patent_details(data).raised \/ (extract.events = <<>> /\ VizRaises(data))
       THEN /\ pc' = "failed"
            /\ UNCHANGED <<extract, token_index>>
       ELSE /\ pc' = "sections"
            /\ extract' = PopulateExtract(extract, data, prior_art_correlator, claims)
            /\ token_index' = build_token_index(extract')

\* lines 1126-1520: one turn of the section loop
GenerateSection(outcome, content) ==
    /\ pc = "sections"
    /\ how' = outcome
    /\ llm_text' = GeneratedText(outcome, content)
    /\ empty_run' = (empty_run /\ llm_text' = <<>>)
    /\ analyses' = Append(analyses,
                          Section(section_order[sec], llm_text', extract, token_index))
    /\ sec' = sec + 1
    /\ pc' = IF sec = Len(section_order) THEN "assemble" ELSE "sections"
    /\ UNCHANGED <<session, fails, report, n_analyze, n_reports, fcall, epo>>

\* lines 1522-1637: assembly, audit, warning banner, and the file is written
AssembleAndAudit ==
    /\ pc = "assemble"
    /\ LET html == AssembleHtml(analyses, extract, token_index)
       IN /\ fails' = Fails(html, Coverage(extract), token_index)
          /\ report' = WithWarning(html, fails')
    /\ pc' = "done"
    /\ UNCHANGED <<session, sec, how, llm_text, empty_run, analyses, n_analyze, n_reports,
                    fcall, epo>>

Next ==
    \/ \E record \in Records : Analyze(record)
    \/ StartReport
    \/ \E call \in Calls : GenerateSection(call[1], call[2])
    \/ AssembleAndAudit

Spec == Init /\ [][Next]_vars

(***************************************************************************)
(* One section under test: the record is fetched and the run has reached   *)
(* the section loop; the service answers one section with any text of the  *)
(* alphabet.                                                               *)
(***************************************************************************)
InitSection ==
    /\ data \in SectionRecords
    /\ claims = extract_claims(data)
    /\ prior_art_correlator = data
    /\ extract = PopulateExtract(NoExtract, data, data, claims)
    /\ token_index = build_token_index(extract)
    /\ pc = "sections"
    /\ sec \in 1..Len(section_order)
    /\ how = "none"
    /\ llm_text = <<>>
    /\ empty_run = TRUE
    /\ analyses = <<>>
    /\ fails = <<>>
    /\ report = <<>>
    /\ n_analyze = 1
    /\ n_reports = 1
    /\ fcall = NoCall
    /\ epo = EPOClient

NextSection ==
    \E content \in Texts(MaxTextLen) : analyses = <<>> /\ GenerateSection("ok", content)

SpecSection == InitSection /\ [][NextSection]_vars

(***************************************************************************)
(* One section under test, the service answering with whole sentences: a   *)
(* text is one sentence form, or two joined by a blank or a line break.    *)
(***************************************************************************)
\* the form the prompt prescribes (line 1044): prose, sentence punctuation,
\* one token
Prescribed == <<Word("x"), Punct, Sp, Tok("EVT", 1)>>

\* the sentence forms of a generated text
SentenceForms ==
    { Prescribed,
      <<Word("y"), Sp, Tok("CIT", 1)>>,
      <<Word("y"), Sp, Tok("CIT", 1), Punct>>,
      <<Omitted, Punct>>,
      <<Word("z"), Sp, Missing, Punct>>,
      <<Word("z"), Sp, Tok("EVT", 9), Punct>> }

SentenceTexts ==
    SentenceForms
    \cup {a \o <<sep>> \o b : a \in SentenceForms, b \in SentenceForms, sep \in {Sp, Nl}}

NextSentence ==
    \E content \in SentenceTexts : analyses = <<>> /\ GenerateSection("ok", content)

SpecSentence == InitSection /\ [][NextSentence]_vars

(***************************************************************************)
(* One report run on each record of a family of generated records: the     *)
(* record is fetched, Generate Report is pressed once and the service      *)
(* answers every section with the empty text.                              *)
(***************************************************************************)
\* the ops:legal nodes a generated record draws from
GenEvents ==
    { RawEvent(RawDate("ymd8", 20020605), "17P", "d", <<>>),
      RawEvent(RawDate("ymd8", 20050102), "intg", "d", <<"EP 99203729A">>),
      RawEvent(RawDate("ymd8", 20050102), "GBPC", "d", <<"US2002">>),
      RawEvent(RawDate("text", 20120504), "xyz", "d", <<"EP99203729A">>) }

\* the references-cited lists a generated record draws from
GenRefs == { <<>>, <<"no number">>, <<"no number", "see D1">>, <<"US2002/0123456", "US2002">> }

\* the shapes of the legal part of a generated record
GenShapes == {"lists", "legal_mapping", "member_mapping"}

GenRecords ==
    {r \in [exdoc : {"list"}, family : GenShapes,
            legal : UNION {[1..k -> GenEvents] : k \in 0..MaxEvents},
            refs : GenRefs, claims : {<<"c1">>}] :
        r.family # "lists" => Len(r.legal) = 1}

InitRecords ==
    /\ data \in GenRecords
    /\ claims = extract_claims(data)
    /\ prior_art_correlator = data
    /\ extract = NoExtract
    /\ token_index = build_token_index(NoExtract)
    /\ pc = "idle"
    /\ sec = 1
    /\ how = "none"
    /\ llm_text = <<>>
    /\ empty_run = TRUE
    /\ analyses = <<>>
    /\ fails = <<>>
    /\ report = <<>>
    /\ n_analyze = 1
    /\ n_reports = MaxReports - 1
    /\ fcall = NoCall
    /\ epo = EPOClient

NextRecords ==
    \/ StartReport
    \/ GenerateSection("ok", <<>>)
    \/ AssembleAndAudit

SpecRecords == InitRecords /\ [][NextRecords]_vars

(***************************************************************************)
(* Functions applied on their own.  The session rests as constructed;      *)
(* fcall holds the argument, and the result once the function returned.    *)
(***************************************************************************)
\* the session outside any run
SessionAtRest ==
    /\ data = NoData
    /\ claims = <<>>
    /\ prior_art_correlator = NoData
    /\ extract = NoExtract
    /\ token_index = build_token_index(NoExtract)
    /\ pc = "idle"
    /\ sec = 1
    /\ how = "none"
    /\ llm_text = <<>>
    /\ empty_run = TRUE
    /\ analyses = <<>>
    /\ fails = <<>>
    /\ report = <<>>
    /\ n_analyze = 0
    /\ n_reports = 0

\* the event dicts normalize_event is applied to
InputCodes == {"17P", "intg", " INTG", "26N", "GBPC", "OPP", "LAPSE", "CEASED", "GRANT",
               "xyz", "ABC", ""}
InputDates == {NoDate, RawDate("ymd8", 20020605), RawDate("text", 20120504),
               RawDate("iso", 20050102), RawDate("bad", 0),
               RawDate("ymd8", 18500101), RawDate("iso", 20300101)}
InputEffects == {<<>>, <<"unknown">>, <<"grant">>}
InputEvents ==
    {Event(date, code, "d", effects, <<0, 0>>) :
        date \in InputDates, code \in InputCodes, effects \in InputEffects}

InitNormalizeEvent ==
    /\ SessionAtRest
    /\ fcall \in {[fn |-> "normalize_event", arg |-> event, out |-> event, done |-> FALSE] :
                    event \in InputEvents}
    /\ epo = EPOClient

\* lines 31-50: normalize_event(event) returns
NormalizeEventReturns ==
    /\ fcall.fn = "normalize_event"
    /\ ~fcall.done
    /\ fcall' = [fcall EXCEPT !.out = normalize_event(fcall.arg), !.done = TRUE]
    /\ UNCHANGED <<session, pc, sec, how, llm_text, empty_run, analyses, fails, report,
                    n_analyze, n_reports, epo>>

SpecNormalizeEvent == InitNormalizeEvent /\ [][NormalizeEventReturns]_vars

(***************************************************************************)
(* The registry client (api/epo_client.py).  One call_ops_api call is      *)
(* followed statement by statement; the auth endpoint and the data         *)
(* endpoint answer with any status, and the clock moves between steps.     *)
(***************************************************************************)
MaxCalls == 2        \* call_ops_api calls made from outside
MaxElapsed == 90     \* seconds the clock is followed for
RecursionLimit == 3  \* frames the interpreter lets call_ops_api nest

RenewMargin == 60    \* line 39: "- 60"
SleepSeconds == 5    \* line 61: time.sleep(5)

AuthStatus == {200, 401}
ExpiresIn == {30, 120}
Status == {200, 429, 500}

OnlyClientChanges ==
    UNCHANGED <<session, pc, sec, how, llm_text, empty_run, analyses, fails, report,
                n_analyze, n_reports, fcall>>

\* time.time() read later than the last read; the clock is followed up to MaxElapsed
Later(now, seconds) ==
    IF now + seconds <= EPOClient.now + MaxElapsed THEN now + seconds
    ELSE EPOClient.now + MaxElapsed

\* lines 20-41: get_access_token with the auth endpoint answering status and,
\* on 200, a token that expires in expires_in seconds
get_access_token(c, status, expires_in) ==
    IF status # 200
    THEN [c EXCEPT !.at = "raised", !.error = "auth"]
    ELSE [c EXCEPT !.issued = c.issued + 1,
                   !.access_token = c.issued + 1,
                   !.token_expiry = c.now + expires_in - RenewMargin,
                   !.lifetime = [issued_at |-> c.now, expires_in |-> expires_in]]

\* a check that renews only when no token is held
RenewOnlyWhenNone(c) == c.access_token = 0

\* line 45: not self.access_token or not self.token_expiry or
\* time.time() >= self.token_expiry
MustRenew(c) ==
    \/ c.access_token = 0
    \/ c.token_expiry = 0
    \/ c.now >= c.token_expiry

\* lines 43-47: ensure_valid_token
ensure_valid_token(c, status, expires_in) ==
    LET read == [c EXCEPT !.checked = [token |-> c.access_token,
                                       expiry |-> c.token_expiry,
                                       time |-> c.now],
                          !.requested = MustRenew(c)]
    IN IF MustRenew(c) THEN get_access_token(read, status, expires_in) ELSE read

\* a retry that loops in the same frame
RetryInPlace(c) == [c EXCEPT !.now = Later(c.now, SleepSeconds), !.at = "ensure"]

\* lines 59-62: the 429 branch sleeps and calls call_ops_api again, one frame
\* deeper; the interpreter raises RecursionError instead of entering a frame
\* beyond its recursion limit
Retry(c) ==
    IF c.depth < RecursionLimit
    THEN [c EXCEPT !.now = Later(c.now, SleepSeconds), !.at = "ensure",
                   !.depth = c.depth + 1]
    ELSE [c EXCEPT !.now = Later(c.now, SleepSeconds), !.at = "raised",
                   !.error = "recursion"]

\* the clock moves on
ClientTick ==
    /\ epo.now < EPOClient.now + MaxElapsed
    /\ epo' = [epo EXCEPT !.now = Later(epo.now, 30)]
    /\ OnlyClientChanges

\* line 49: call_ops_api(endpoint, params) is entered from outside
CallOpsApi ==
    /\ epo.at = "idle"
    /\ epo.calls < MaxCalls
    /\ epo' = [epo EXCEPT !.at = "ensure", !.depth = 1, !.calls = epo.calls + 1,
                          !.token = 0, !.bearer = 0, !.error = "none"]
    /\ OnlyClientChanges

\* line 51: token = self.ensure_valid_token()
EnsureValidToken(status, expires_in) ==
    /\ epo.at = "ensure"
    /\ LET c == ensure_valid_token(epo, status, expires_in)
       IN epo' = IF c.at = "raised" THEN c
                 ELSE [c EXCEPT !.at = "send", !.token = c.access_token]
    /\ OnlyClientChanges

\* lines 52-67: the request is sent with the token and the answer is handled
SendRequest(status) ==
    /\ epo.at = "send"
    /\ LET sent == [epo EXCEPT !.bearer = epo.token]
       IN epo' = CASE status = 429 -> Retry(sent)
                   [] status = 200 -> [sent EXCEPT !.at = "returned"]
                   [] OTHER -> [sent EXCEPT !.at = "raised", !.error = "request"]
    /\ OnlyClientChanges

\* the result or the exception reaches the caller of the outermost frame
ClientReturn ==
    /\ epo.at \in {"returned", "raised"}
    /\ epo' = [epo EXCEPT !.at = "idle", !.depth = 0]
    /\ OnlyClientChanges

InitClient ==
    /\ SessionAtRest
    /\ fcall = NoCall
    /\ epo = EPOClient

\* the statements of a call in progress
ClientRuns ==
    \/ \E status \in AuthStatus, expires_in \in ExpiresIn :
          EnsureValidToken(status, expires_in)
    \/ \E status \in Status : SendRequest(status)
    \/ ClientReturn

NextClient ==
    \/ ClientTick
    \/ CallOpsApi
    \/ ClientRuns

SpecClient == InitClient /\ [][NextClient]_vars

\* a call in progress keeps running: every endpoint answers, sleep returns
SpecClientRuns == SpecClient /\ WF_vars(ClientRuns)

(***************************************************************************)
(* Properties                                                              *)
(***************************************************************************)
\* the lines of every section of the run: the section text, then its block
FinalLines == UNION {{analyses[i].lines[j] : j \in 1..Len(analyses[i].lines)}
                       \cup {analyses[i].block[j] : j \in 1..Len(analyses[i].block)} :
                     i \in 1..Len(analyses)}

\* line is a contiguous part of s
IsPartOf(line, s) ==
    \E j \in 1..(Len(s) - Len(line) + 1) : SubSeq(s, j, j + Len(line) - 1) = line

\* what a run on the record of the session derives from that record alone
FreshExtract == PopulateExtract(NoExtract, data, data, extract_claims(data))

\* C1: every line of every finalized section holds exactly one bracketed
\* token, and that token is a key of the Token Index of the run.
C1_ExactlyOneKnownToken ==
    \A line \in FinalLines :
       /\ Len(TokensOf(line)) = 1
       /\ TokKey(TokensOf(line)[1]) \in DOMAIN token_index

\* C1 happens: a line of the generated text is a line of the finalized section
C1_Witness ==
    /\ analyses # <<>>
    /\ llm_text = <<Word("x"), Sp, Tok("EVT", 1)>>
    /\ \E j \in 1..Len(analyses[1].lines) : analyses[1].lines[j] = llm_text

\* C2: no line of the finalized section is a part of a sentence of the
\* generated text that holds two or more bracketed tokens: such a sentence
\* is dropped whole.
C2_TwoTokenSentenceDropped ==
    analyses # <<>> =>
       \A i \in 1..Len(split_sentences(llm_text)) :
          Len(TokensOf(split_sentences(llm_text)[i])) >= 2 =>
             \A j \in 1..Len(analyses[Len(analyses)].lines) :
                ~IsPartOf(analyses[Len(analyses)].lines[j], split_sentences(llm_text)[i])

\* C3: the document of a run (jurisdiction EP) never shows the word
\* "estoppel", in any letter case.
C3_NoEstoppelInReport == \A x \in HtmlAtoms(report) : ~IsEstoppel(x)

\* C4: no line of a finalized section, block included, holds the placeholder
\* "(Omitted pending source)".
C4_NoPlaceholder == \A line \in FinalLines : ~ContainsKind(line, "omitted")

\* C4 happens: the generated text holds the placeholder and a line of that
\* text reaches the finalized section
C4_Witness ==
    /\ analyses # <<>>
    /\ ContainsKind(llm_text, "omitted")
    /\ \E j \in 1..Len(analyses[1].lines) : analyses[1].lines[j] = <<Tok("EVT", 1)>>

\* C5: the document of a run shows exactly one coverage banner.
C5_OneCoverageBanner ==
    report # <<>> =>
       Cardinality({i \in 1..Len(report) :
                      report[i].el \in {"div.coverage-banner", "p.strong-coverage",
                                        "p.coverage"}}) = 1

\* C6: for each entity type with n extracted entities the Token Index holds
\* exactly the tokens TYPE#1..TYPE#n, TYPE#k carries the metadata of the k-th
\* entity in extraction order, and building the index again on the same
\* extract gives the same index.
C6_TokenIndexNumbering ==
    /\ DOMAIN token_index =
          {<<"EVT", k>> : k \in 1..Len(extract.events)}
          \cup {<<"CIT", k>> : k \in 1..Len(extract.citations)}
          \cup {<<"CLM", k>> : k \in 1..Len(extract.claims)}
    /\ \A k \in 1..Len(extract.events) :
          token_index[<<"EVT", k>>] = EventMeta(extract.events[k])
    /\ \A k \in 1..Len(extract.citations) :
          token_index[<<"CIT", k>>] = CitationMeta(extract.citations[k])
    /\ \A k \in 1..Len(extract.claims) :
          token_index[<<"CLM", k>>] = ClaimMeta(extract.claims[k])
    /\ build_token_index(extract) = token_index

\* C6 happens: the index of a run over several events, a citation and a claim
C6_Witness ==
    /\ pc = "sections"
    /\ Len(extract.events) >= 2
    /\ Len(extract.citations) >= 1
    /\ Len(extract.claims) >= 1

\* C7: when the generation call fails, the text handed to the guardrails is
\* the empty text.
C7_EmptyTextOnFailure == how \in Failures => llm_text = <<>>

\* C8: when the generated text is empty for all four sections, the lines of
\* each section are the sentences of deterministic_bullets_for that name a
\* known token, and the audit finds no [MISSING] violation.
C8_FallbackOnlyReport ==
    (pc = "done" /\ empty_run) =>
       /\ \A i \in 1..Len(section_order) :
             LET det == deterministic_bullets_for(section_order[i], extract,
                                                  DOMAIN token_index,
                                                  Required(section_order[i]))
             IN {analyses[i].lines[j] : j \in 1..Len(analyses[i].lines)}
                   = {det[j] : j \in {k \in 1..Len(det) :
                                        TokKey(Last(det[k])) \in DOMAIN token_index}}
       /\ \A i \in 1..Len(fails) : fails[i] # "missing"

\* C8 happens: a finished run whose generated texts were all empty and whose
\* first section holds the five fallback sentences
C8_Witness ==
    /\ pc = "done"
    /\ empty_run
    /\ Len(analyses[1].lines) = 5

\* C9: every report run on a fetched record ends with a document.
C9_RunEndsWithReport == pc \in {"done", "failed"} => report # <<>>

\* C10: the events, citations, claims and Token Index of a run are those of
\* the record fetched last, and nothing of an earlier record.
C10_RunUsesFetchedRecordOnly ==
    pc \in {"sections", "assemble", "done"} =>
       /\ extract.events = FreshExtract.events
       /\ extract.citations = FreshExtract.citations
       /\ extract.claims = FreshExtract.claims
       /\ token_index = build_token_index(FreshExtract)

\* C11: whenever the extract holds an event, the Timeline section carries
\* the "Top 3 pivotal events" block, the block has at most 3 entries in
\* ascending date order, and the document of the run shows the block.
C11_TopBlockPresent ==
    extract.events # <<>> =>
       /\ Len(analyses) >= 2 =>
             /\ analyses[2].header = "Top 3 pivotal events"
             /\ Len(analyses[2].block) \in 1..3
             /\ \A i \in 1..Len(analyses[2].block) : analyses[2].block[i][1].k = "date"
             /\ \A i \in 1..(Len(analyses[2].block) - 1) :
                   analyses[2].block[i][1].n <= analyses[2].block[i + 1][1].n
       /\ pc = "done" =>
             /\ Atom("strong", "Top 3 pivotal events", 0) \in HtmlAtoms(report)
             /\ \A i \in 1..Len(analyses[2].block) :
                   analyses[2].block[i][1] \in HtmlAtoms(report)

\* C11 happens: a finished run over four events, three of them in the block,
\* the first of the block earlier than the last
C11_Witness ==
    /\ pc = "done"
    /\ Len(extract.events) = 4
    /\ Len(analyses[2].block) = 3
    /\ analyses[2].block[1][1].n < analyses[2].block[3][1].n

C13_RankedBlockOrdered ==
    (extract.citations # <<>> /\ Len(analyses) >= 3) =>
       LET block == analyses[3].block
           Cited(i) == extract.citations[Last(block[i]).n]
           KindRank(kind) ==
               CASE kind = "examiner" -> 1
                 [] kind = "legal" -> 2
                 [] kind = "applicant" -> 3
                 [] OTHER -> 4
       IN /\ analyses[3].header \in {"Ranked Citations", "Ranked Top 5 citations"}
          /\ Len(block) \in 1..5
          /\ \A i \in 1..(Len(block) - 1) :
                \/ KindRank(Cited(i).kind) < KindRank(Cited(i + 1).kind)
                \/ /\ KindRank(Cited(i).kind) = KindRank(Cited(i + 1).kind)
                   /\ IdOrd(Cited(i).id) <= IdOrd(Cited(i + 1).id)

\* C14: the date of every event normalize_event returns is absent or an ISO
\* date whose year lies in 1900 .. current year + 1; a raw date that cannot
\* be parsed or is out of range does not remain on the event.
C14_NormalizedDateValid ==
    (fcall.fn = "normalize_event" /\ fcall.done) =>
        \/ fcall.out.date = NoDate
        \/ /\ fcall.out.date.fmt = "iso"
           /\ YearOf(fcall.out.date.v) >= 1900
           /\ YearOf(fcall.out.date.v) <= NowYear + 1

\* C15: every citation identifier handed to the Token Index builder is the
\* country + number + kind of a reference extracted from the record; a
\* reference that cannot be normalized is dropped, never given a made-up
\* identifier.
C15_CitationIdsFromReferences ==
    extract.populated =>
       LET extracted == extract_citations(prior_art_correlator)
       IN \A i \in 1..Len(extract.citations) :
             /\ extract.citations[i].id # ""
             /\ \E j \in 1..Len(extracted) :
                   NormKey(extracted[j].raw) = extract.citations[i].id

\* C16: a record whose legal-event collection of a family member, or whose
\* family-member collection, is a single mapping yields the same extracted
\* events as the record holding that mapping in a one-element list.
C16_SingularAsList ==
    pc # "idle" =>
        /\ pc # "failed"
        /\ extract.events = extract_events_for_viz([data EXCEPT !.family = "lists"])

\* C17: whenever a finalized section has fewer sentences than its required
\* minimum, the grounded material of the section is used up: every event
\* token (Timeline) or citation token (Prior Art) of the Token Index is
\* cited in that section.
C17_ShortSectionExhausted ==
    \A i \in 1..Len(analyses) :
        LET key == section_order[i]
            ty == CASE key = "timeline_analysis" -> "EVT"
                    [] key = "prior_art_analysis" -> "CIT"
                    [] OTHER -> "none"
            shown == analyses[i].lines \o analyses[i].block
            cited == UNION {{TokKey(x) : x \in {line[j] : j \in 1..Len(line)} \cap
                                              {y \in {line[j] : j \in 1..Len(line)} : IsTok(y)}} :
                            line \in {shown[j] : j \in 1..Len(shown)}}
        IN Len(analyses[i].lines) < Required(key) =>
              \A t \in DOMAIN token_index : t[1] = ty => t \in cited

\* C18: the prompt built for a section lists every token of the Token Index,
\* whatever its type, each with a one-line gloss, and embeds no raw
\* structured extract data.
C18_PromptListsEveryToken ==
    pc = "sections" =>
       LET prompt == _build_prompt_with_tokens(section_order[sec], token_index, extract)
           ref == prompt.token_ref
       IN /\ {ref[i].tok : i \in 1..Len(ref)} = DOMAIN token_index
          /\ \A i \in 1..Len(ref) : ref[i].gloss # <<>>
          /\ \A i \in 1..Len(prompt.text) :
                prompt.text[i] \notin {"extract_json_compact", "token_index_json"}

\* the effects of the mapping table, the code looked up whatever its case,
\* and the tag of an unmapped code that came with no effects of its own
C19_TableAndTag ==
    LET code == fcall.arg.code
        got == fcall.out.effects
    IN /\ code = "17P" => got = <<"examination_requested">>
       /\ code \in {"INTG", "intg", " INTG"} => got = <<"grant_intended">>
       /\ code = "26N" => got = <<"no_opposition">>
       /\ code = "GBPC" => got = <<"lapse_national", "scope_narrowed">>
       /\ code = "OPP" => got = <<"opposition">>
       /\ code \in {"LAPSE", "CEASED"} => got = <<"lapse_national">>
       /\ code = "GRANT" => got = <<"grant">>
       /\ fcall.arg.effects \in {<<>>, <<"unknown">>} =>
             /\ code = "xyz" => got = <<"unmapped_xyz">>
             /\ code = "ABC" => got = <<"unmapped_abc">>

C20_NoDuplicateIdentity ==
    extract.populated =>
       LET handed == match_to_rejections(prior_art_correlator)
       IN \A i, j \in 1..Len(handed) :
             i < j => NormKey(handed[i].raw) # NormKey(handed[j].raw)

\* two extracted references with one identity have reached match_to_rejections
\* and one citation with that identity has been handed on
C20_Witness ==
    /\ extract.populated
    /\ Len(extract.citations) >= 2
    /\ LET extracted == extract_citations(prior_art_correlator)
       IN \E i, j \in 1..Len(extracted) :
             /\ i < j
             /\ NormKey(extracted[i].raw) = NormKey(extracted[j].raw)
             /\ NormKey(extracted[i].raw) # ""
             /\ \E k \in 1..Len(extract.citations) :
                   extract.citations[k].id = NormKey(extracted[i].raw)

\* C21: whenever the assembled document of a run shows the word "estoppel"
\* in any letter case, the violations of the audit hold the wording
\* violation, whether or not "prosecution interpretation" occurs as well.
C21_EstoppelAlwaysReported ==
    pc = "done" =>
        ((\E x \in HtmlAtoms(AssembleHtml(analyses, extract, token_index)) : IsEstoppel(x))
            => \E i \in 1..Len(fails) : fails[i] = "wording")

\* C22: whenever the audit finds a violation, the document is still written,
\* it starts with the warning banner, and the banner lists every violation
\* found; when the audit finds none, the document has no warning banner.
C22_WarningBannerListsFails ==
    pc = "done" =>
       LET html == AssembleHtml(analyses, extract, token_index)
       IN /\ fails = Fails(html, Coverage(extract), token_index)
          /\ report # <<>>
          /\ fails # <<>> =>
                /\ report[1].el = "div.warning"
                /\ Len(report[1].lines) = Len(fails)
                /\ \A i \in 1..Len(fails) : report[1].lines[i] = FailMessage(fails[i])
                /\ Tail(report) = html
          /\ fails = <<>> =>
                /\ report = html
                /\ \A i \in 1..Len(report) : report[i].el # "div.warning"

\* the audit of a run has found a violation and the document is written
C22_Witness ==
    /\ pc = "done"
    /\ fails # <<>>
    /\ report[1].el = "div.warning"

\* C23: a generated sentence of the prescribed form (prose ending in
\* sentence punctuation, then exactly one token of the Token Index, no
\* placeholder or marker) survives validation: a line of the finalized
\* section holds its prose and its token together, wherever the sentence
\* stands in the generated text.
C23_PrescribedFormSurvives ==
    (analyses # <<>> /\ <<"EVT", 1>> \in DOMAIN token_index /\ IsPartOf(Prescribed, llm_text)) =>
        \E j \in 1..Len(analyses[1].lines) :
            LET line == analyses[1].lines[j]
            IN /\ \E k \in 1..Len(line) : line[k] = Word("x")
               /\ \E k \in 1..Len(line) : line[k] = Tok("EVT", 1)

\* C24: placeholder stripping removes only the offending sentence: when a
\* generated text holds a placeholder sentence or a sentence with a
\* [MISSING] or [INVALID_ marker, every other sentence of the text that
\* survives validation on its own still survives.
C24_OtherSentencesSurvive ==
    analyses # <<>> =>
       LET key == section_order[sec - 1]
           sentences == split_sentences(llm_text)
           Offending(s) == \/ ContainsKind(s, "omitted")
                           \/ ContainsKind(s, "missing")
                           \/ ContainsKind(s, "invalid")
                           \/ \E k \in 1..Len(s) : s[k] = Tok("EVT", 9)
           Survives(s, lines) == \E j \in 1..Len(lines) : IsPartOf(Strip(s), lines[j])
       IN (\E i \in 1..Len(sentences) : Offending(sentences[i])) =>
             \A i \in 1..Len(sentences) :
                (/\ ~Offending(sentences[i])
                 /\ Survives(sentences[i],
                             Section(key, sentences[i], extract, token_index).lines))
                   => Survives(sentences[i], analyses[1].lines)

\* C25: every line of the Top 3 block cites the token of the event it
\* describes: the Token Index entry of the line's [EVT#k] has the date of the
\* line and, letter case and surrounding whitespace apart, its code.
C25_TopLineCitesItsEvent ==
    Len(analyses) >= 2 =>
       LET block == analyses[2].block
           SameCode(a, b) ==
               \/ a = b
               \/ {a, b} \subseteq {"INTG", "intg", " INTG"}
               \/ {a, b} \subseteq {"XYZ", "xyz"}
       IN \A i \in 1..Len(block) :
             LET entry == token_index[TokKey(Last(block[i]))]
             IN /\ entry.type = "event"
                /\ entry.date.v = block[i][1].n
                /\ SameCode(entry.code, block[i][5].a)

\* C26: every fallback sentence that states the date of an event cites the
\* token of that event: the Token Index entry of the cited [EVT#k] has the
\* date the sentence states (the service answers with empty texts, so every
\* sentence of a section is a fallback sentence).
C26_FallbackDateMatchesToken ==
    \A i \in 1..Len(analyses) :
       \A j \in 1..Len(analyses[i].lines) :
          LET line == analyses[i].lines[j]
              cited == Last(line)
          IN (cited.k = "tok" /\ cited.a = "EVT") =>
                \A k \in 1..Len(line) :
                   line[k].k = "date" =>
                      /\ TokKey(cited) \in DOMAIN token_index
                      /\ token_index[TokKey(cited)].date.v = line[k].n

\* C27: in the Token Index of a report run whose events come from
\* extract_events_for_viz, event tokens are numbered in ascending date
\* order: for i < j the date of EVT#i is not after the date of EVT#j, so
\* EVT#n (n the number of events) is a most recent event.
C27_EventTokensByDate ==
    (extract.populated /\ extract.events = extract_events_for_viz(data)) =>
       LET n == Len(extract.events)
       IN /\ \A i \in 1..n : <<"EVT", i>> \in DOMAIN token_index
          /\ \A i, j \in 1..n :
                i < j => token_index[<<"EVT", i>>].date.v <= token_index[<<"EVT", j>>].date.v
          /\ \A i \in 1..n :
                token_index[<<"EVT", i>>].date.v <= token_index[<<"EVT", n>>].date.v

\* a run on a record whose events are not in date order has built its Token
\* Index, with events of different dates
C27_Witness ==
    /\ extract.populated
    /\ extract.events = extract_events_for_viz(data)
    /\ Len(data.legal) >= 3
    /\ data.legal[1].date.v > data.legal[2].date.v
    /\ Len(extract.events) >= 3
    /\ token_index[<<"EVT", 1>>].date.v < token_index[<<"EVT", 3>>].date.v

\* C28: match_to_rejections keeps one result per distinct extracted
\* citation: two extracted citations with different raw text, neither of
\* which can be normalized to country + number + kind, are both in the
\* result.
C28_UnnormalizableBothKept ==
    extract.populated =>
       LET extracted == extract_citations(prior_art_correlator)
           handed == match_to_rejections(prior_art_correlator)
           Kept(c) == \E k \in 1..Len(handed) : handed[k].raw = c.raw
       IN \A i, j \in 1..Len(extracted) :
             (/\ extracted[i].raw # extracted[j].raw
              /\ NormKey(extracted[i].raw) = ""
              /\ NormKey(extracted[j].raw) = "")
                => (Kept(extracted[i]) /\ Kept(extracted[j]))

\* C29: every data request carries a token the auth endpoint issued; a token
\* that was held and not renewed had not reached its renewal time (issue time
\* + expires_in - 60 s) when ensure_valid_token checked it; and a new token
\* was requested exactly when the check found no token held or the renewal
\* time passed.  (A token just requested is sent without a check of its own.)
C29_TokenValidWhenSent ==
    LET c == epo.checked
    IN /\ epo.bearer # 0 => epo.bearer \in 1..epo.issued
       /\ (epo.bearer # 0 /\ epo.at # "send") => epo.bearer = epo.token
       /\ epo.access_token # 0 =>
              epo.token_expiry =
                  epo.lifetime.issued_at + epo.lifetime.expires_in - RenewMargin
       /\ c.time # 0 =>
              (epo.requested <=> (c.token = 0 \/ c.time >= c.expiry))
       /\ (epo.at = "send" /\ ~epo.requested) =>
              /\ epo.token = c.token
              /\ epo.token \in 1..epo.issued
              /\ c.time < c.expiry

\* the second call renewed or reused, and a request went out with a token
\* that was held and passed the check
C29_Witness ==
    /\ epo.calls = 2
    /\ epo.issued = 2
    /\ epo.at = "returned"
    /\ ~epo.requested
    /\ epo.bearer = 2
    /\ epo.checked.time > epo.lifetime.issued_at

====
